---- MODULE Spec2Model ----
(***************************************************************************)
(* Model of jetconf/rest_server.py: the HandlerList route table and the    *)
(* H2Protocol connection session that assembles requests from the events   *)
(* of the HTTP/2 codec and dispatches them to the registered handlers.     *)
(*                                                                         *)
(* Strings of the program (paths) are sequences of one-character strings,  *)
(* so that str.split and str.startswith are computed, not assumed.         *)
(***************************************************************************)
EXTENDS Integers, Sequences, FiniteSets, TLC

VARIABLES
    handlers,             \* h2_handlers.handlers: list of (condition, handler)
    default_handler,      \* h2_handlers.default_handler
    api,                  \* history: the last HandlerList call and what it returned
    defaults_log,         \* history: the arguments of the register_default_handler calls
    link,                 \* per session: what the event loop has done with the connection
    transport,            \* per session: H2Protocol.transport
    conn,                 \* per session: bytes queued inside H2Protocol.conn (the codec)
    reqs_waiting_upload,  \* per session: H2Protocol.reqs_waiting_upload
    client_cert,          \* per session: H2Protocol.client_cert
    inbox,                \* per session: events encoded in the bytes not yet read from the socket
    events,               \* history, per session: events the last data_received processed
    effects,              \* history, per session: what the last callback did, in order
    raised,               \* history, per session: the last callback ended by an exception
    outcomes              \* history, per session: how each handler the last callback invoked ended

vars == <<handlers, default_handler, api, defaults_log, link, transport, conn,
          reqs_waiting_upload, client_cert, inbox, events, effects, raised,
          outcomes>>

routeVars == <<handlers, default_handler, api, defaults_log>>

sessionVars == <<link, transport, conn, reqs_waiting_upload, client_cert,
                 inbox, events, effects, raised, outcomes>>

----------------------------------------------------------------------------
(* Bounds of the model. *)

\* Longest route table composed by register_handler calls.
MaxRoutes == 3

\* Most events one receive_data call yields.
MaxBatch == 2

\* Most register_default_handler calls.
MaxDefaults == 2

----------------------------------------------------------------------------
(* Values. *)

\* Python's None.
None == "None"

Methods == {"GET", "DELETE", "PUT", "POST", "PATCH"}

\* Request paths: "a", "a?b?a", "b".
Paths == { <<"a">>, <<"a", "?", "b", "?", "a">>, <<"b">> }

\* Callables registered as handlers.
RouteHandlers == {"hA", "hB"}

DefaultHandlers == {"hD", "hE"}

\* str.startswith
StartsWith(p, prefix) ==
    /\ Len(prefix) <= Len(p)
    /\ SubSeq(p, 1, Len(prefix)) = prefix

\* The conditions run() registers are of three shapes:
\*   (m == M) and (p == X), (m == M) and p.startswith(X), m == M.
Conds ==
    { [kind |-> "eq", m |-> "GET", arg |-> <<"a">>],
      [kind |-> "startswith", m |-> "GET", arg |-> <<"a">>],
      [kind |-> "eq", m |-> "PUT", arg |-> <<"a">>],
      [kind |-> "method", m |-> "GET", arg |-> <<>>] }

\* h[0](method, path): the value of a registered condition.
Holds(c, method, path) ==
    /\ method = c.m
    /\ CASE c.kind = "eq" -> path = c.arg
         [] c.kind = "startswith" -> StartsWith(path, c.arg)
         [] OTHER -> TRUE

----------------------------------------------------------------------------
(* HandlerList *)

RECURSIVE scan_last(_, _, _, _)
scan_last(hs, method, path, dflt) ==
    IF hs = <<>> THEN dflt
    ELSE IF Holds(hs[Len(hs)][1], method, path) THEN hs[Len(hs)][2]
    ELSE scan_last(SubSeq(hs, 1, Len(hs) - 1), method, path, dflt)

\* The for loop of get_handler over a list of entries, with its fall-through.
RECURSIVE scan(_, _, _, _)
scan(hs, method, path, dflt) ==
    IF hs = <<>> THEN dflt
    ELSE IF Holds(hs[1][1], method, path) THEN hs[1][2]
    ELSE scan(Tail(hs), method, path, dflt)

get_handler_no_default(hl, method, path) ==
    scan(hl.handlers, method, path, None)

\* HandlerList.get_handler
get_handler(hl, method, path) ==
    scan(hl.handlers, method, path, hl.default_handler)

\* The module global h2_handlers.
h2_handlers == [handlers |-> handlers, default_handler |-> default_handler]

\* HandlerList.register_handler
register_handler(condition, handler) ==
    /\ Len(handlers) < MaxRoutes
    /\ handlers' = Append(handlers, <<condition, handler>>)
    /\ api' = [op |-> "register_handler"]
    /\ UNCHANGED <<default_handler, defaults_log>>
    /\ UNCHANGED sessionVars

register_default_handler_once(handler) ==
    /\ Len(defaults_log) < MaxDefaults
    /\ default_handler' = IF default_handler = None THEN handler ELSE default_handler
    /\ defaults_log' = Append(defaults_log, handler)
    /\ api' = [op |-> "register_default_handler"]
    /\ UNCHANGED handlers
    /\ UNCHANGED sessionVars

\* HandlerList.register_default_handler
register_default_handler(handler) ==
    /\ Len(defaults_log) < MaxDefaults
    /\ default_handler' = handler
    /\ defaults_log' = Append(defaults_log, handler)
    /\ api' = [op |-> "register_default_handler"]
    /\ UNCHANGED handlers
    /\ UNCHANGED sessionVars

\* A call of h2_handlers.get_handler(method, path), its result kept in api.
call_get_handler(method, path) ==
    /\ api' = [op |-> "get_handler", method |-> method, path |-> path,
               ret |-> get_handler(h2_handlers, method, path)]
    /\ UNCHANGED <<handlers, default_handler, defaults_log>>
    /\ UNCHANGED sessionVars

----------------------------------------------------------------------------
(* Values of a session. *)

Sessions == {"A", "B"}

\* Client-initiated HTTP/2 stream ids.
Streams == {1, 3}

Bodies == {"b1", "b2"}

\* The (:method, :path) pairs that clients send.
Requests ==
    { <<"GET", <<"a">> >>, <<"GET", <<"a", "?", "b", "?", "a">> >>,
      <<"DELETE", <<"a">> >>,
      <<"PUT", <<"a">> >>, <<"PUT", <<"a", "?", "b", "?", "a">> >>,
      <<"POST", <<"a">> >>,
      <<"PATCH", <<"a">> >> }

\* h2.events.RequestReceived: headers is a list of (name, value) pairs.
RequestReceived(stream_id, method, path) ==
    [type |-> "RequestReceived", stream_id |-> stream_id,
     headers |-> << <<":method", method>>, <<":path", path>> >>]

\* h2.events.DataReceived
DataReceived(stream_id, data) ==
    [type |-> "DataReceived", stream_id |-> stream_id, data |-> data]

\* h2.events.RemoteSettingsChanged
RemoteSettingsChanged == [type |-> "RemoteSettingsChanged"]

\* h2.events.ConnectionTerminated: one of the events data_received has no branch for.
ConnectionTerminated == [type |-> "ConnectionTerminated"]

H2Events ==
    { RequestReceived(sid, r[1], r[2]) : sid \in Streams, r \in Requests }
    \cup { DataReceived(sid, b) : sid \in Streams, b \in Bodies }
    \cup { RemoteSettingsChanged, ConnectionTerminated }

\* What a handler, which is opaque to the dispatcher, does when it is called.
Outcomes == {"return", "raise"}

\* Bytes the codec queues for the peer while it decodes inbound bytes.
Replies == { <<>>, <<"reply">> }

\* transport.get_extra_info('peercert') under ssl.CERT_REQUIRED.
PeerCerts == {"cert"}

\* dict()
EmptyDict == [k \in {} |-> None]

\* d[k] = v
DictSet(d, k, v) == [x \in DOMAIN d \cup {k} |-> IF x = k THEN v ELSE d[x]]

\* d.pop(k), the dict it leaves
DictDel(d, k) == [x \in DOMAIN d \ {k} |-> d[x]]

\* OrderedDict(pairs): the last pair of a name wins.
OrderedDict(pairs) ==
    [n \in {pairs[i][1] : i \in 1..Len(pairs)} |->
        LET at == {i \in 1..Len(pairs) : pairs[i][1] = n}
            hi == CHOOSE i \in at : \A j \in at : j <= i
        IN pairs[hi][2]]

\* str.split(sep) for a one-character sep: the list of pieces.
RECURSIVE split(_, _)
split(str, sep) ==
    LET at == {i \in 1..Len(str) : str[i] = sep}
    IN IF at = {} THEN <<str>>
       ELSE LET i == CHOOSE i \in at : \A j \in at : i <= j
            IN <<SubSeq(str, 1, i - 1)>> \o split(SubSeq(str, i + 1, Len(str)), sep)

----------------------------------------------------------------------------
(* H2Protocol.  The callbacks work on a record st of the fields they change: *)
(* reqs (reqs_waiting_upload), conn (bytes queued in the codec), fx (what    *)
(* was done so far), n (how many events the loop took up), raised (an       *)
(* exception is propagating) and outs (how the handlers invoked ended).      *)

\* The handler call inside a try block whose except clause answers the
\* stream with an error response.
invoke_caught(st, call, out) ==
    IF out = "raise"
    THEN [st EXCEPT !.fx = Append(Append(@, call),
                                  [op |-> "write", ev |-> call.ev,
                                   data |-> <<"error_response">>]),
                    !.outs = Append(@, out)]
    ELSE [st EXCEPT !.fx = Append(@, call), !.outs = Append(@, out)]

\* h(self, headers, stream_id) or h(self, headers, data, stream_id), where out
\* is what the handler does; i is the index of the event being processed.
invoke(st, call, out) ==
    [st EXCEPT !.fx = Append(@, call), !.outs = Append(@, out),
               !.raised = (out = "raise")]

\* H2Protocol.handle_get_delete
handle_get_delete(st, headers, stream_id, out, i) ==
    LET url_split == split(headers[":path"], "?")
        url_path == url_split[1]
        h == get_handler(h2_handlers, headers[":method"], url_path)
    IN IF h # None
       THEN invoke(st, [op |-> "call", ev |-> i, form |-> "bodyless", h |-> h,
                        headers |-> headers, stream_id |-> stream_id], out)
       ELSE st

\* http_handle_upload reading the entry without removing it.
http_handle_upload_keep(st, data, stream_id, out, i) ==
    IF stream_id \notin DOMAIN st.reqs
    THEN st
    ELSE LET headers == st.reqs[stream_id]
             h == get_handler(h2_handlers, headers[":method"],
                              split(headers[":path"], "?")[1])
         IN IF h # None
            THEN invoke(st, [op |-> "call", ev |-> i, form |-> "body", h |-> h,
                             headers |-> headers, data |-> data,
                             stream_id |-> stream_id], out)
            ELSE st

\* http_handle_upload letting the KeyError of a missing entry propagate.
http_handle_upload_keyerror(st, data, stream_id, out, i) ==
    IF stream_id \notin DOMAIN st.reqs
    THEN [st EXCEPT !.raised = TRUE]
    ELSE LET headers == st.reqs[stream_id]
             popped == [st EXCEPT !.reqs = DictDel(@, stream_id)]
             h == get_handler(h2_handlers, headers[":method"],
                              split(headers[":path"], "?")[1])
         IN IF h # None
            THEN invoke(popped, [op |-> "call", ev |-> i, form |-> "body", h |-> h,
                                 headers |-> headers, data |-> data,
                                 stream_id |-> stream_id], out)
            ELSE popped

\* http_handle_upload emptying the whole pending map.
http_handle_upload_clear(st, data, stream_id, out, i) ==
    IF stream_id \notin DOMAIN st.reqs
    THEN st
    ELSE LET headers == st.reqs[stream_id]
             popped == [st EXCEPT !.reqs = EmptyDict]
             h == get_handler(h2_handlers, headers[":method"],
                              split(headers[":path"], "?")[1])
         IN IF h # None
            THEN invoke(popped, [op |-> "call", ev |-> i, form |-> "body", h |-> h,
                                 headers |-> headers, data |-> data,
                                 stream_id |-> stream_id], out)
            ELSE popped

\* http_handle_upload removing the entry only when a handler takes the request.
http_handle_upload_late_pop(st, data, stream_id, out, i) ==
    IF stream_id \notin DOMAIN st.reqs
    THEN st
    ELSE LET headers == st.reqs[stream_id]
             popped == [st EXCEPT !.reqs = DictDel(@, stream_id)]
             h == get_handler(h2_handlers, headers[":method"],
                              split(headers[":path"], "?")[1])
         IN IF h # None
            THEN invoke(popped, [op |-> "call", ev |-> i, form |-> "body", h |-> h,
                                 headers |-> headers, data |-> data,
                                 stream_id |-> stream_id], out)
            ELSE st

\* http_handle_upload routing on the whole :path, query included.
http_handle_upload_whole_path(st, data, stream_id, out, i) ==
    IF stream_id \notin DOMAIN st.reqs
    THEN st
    ELSE LET headers == st.reqs[stream_id]
             popped == [st EXCEPT !.reqs = DictDel(@, stream_id)]
             h == get_handler(h2_handlers, headers[":method"], headers[":path"])
         IN IF h # None
            THEN invoke(popped, [op |-> "call", ev |-> i, form |-> "body", h |-> h,
                                 headers |-> headers, data |-> data,
                                 stream_id |-> stream_id], out)
            ELSE popped

\* http_handle_upload removing the entry once the handler has returned, so
\* that a request whose handler raised stays pending.
http_handle_upload_pop_after(st, data, stream_id, out, i) ==
    IF stream_id \notin DOMAIN st.reqs
    THEN st
    ELSE LET headers == st.reqs[stream_id]
             popped == [st EXCEPT !.reqs = DictDel(@, stream_id)]
             h == get_handler(h2_handlers, headers[":method"],
                              split(headers[":path"], "?")[1])
             called == invoke(st, [op |-> "call", ev |-> i, form |-> "body", h |-> h,
                                   headers |-> headers, data |-> data,
                                   stream_id |-> stream_id], out)
         IN IF h # None
            THEN IF called.raised
                 THEN called
                 ELSE [called EXCEPT !.reqs = DictDel(@, stream_id)]
            ELSE popped

\* H2Protocol.http_handle_upload
http_handle_upload(st, data, stream_id, out, i) ==
    IF stream_id \notin DOMAIN st.reqs
    THEN st
    ELSE LET headers == st.reqs[stream_id]
             popped == [st EXCEPT !.reqs = DictDel(@, stream_id)]
             url_split == split(headers[":path"], "?")
             url_path == url_split[1]
             h == get_handler(h2_handlers, headers[":method"], url_path)
         IN IF h # None
            THEN invoke(popped, [op |-> "call", ev |-> i, form |-> "body", h |-> h,
                                 headers |-> headers, data |-> data,
                                 stream_id |-> stream_id], out)
            ELSE popped

\* on_request with DELETE taken for a method that carries a body.
on_request_delete_waits(st, event, out, i) ==
    LET headers == OrderedDict(event.headers)
        http_method == headers[":method"]
    IN IF http_method \in {"GET"}
       THEN handle_get_delete(st, headers, event.stream_id, out, i)
       ELSE IF http_method \in {"PUT", "POST", "DELETE"}
       THEN [st EXCEPT !.reqs = DictSet(@, event.stream_id, headers)]
       ELSE [st EXCEPT !.fx = Append(@, [op |-> "warn", ev |-> i,
                                         method |-> headers[":method"]])]

\* on_request with every method but PUT and POST handled at once.
on_request_any_method(st, event, out, i) ==
    LET headers == OrderedDict(event.headers)
        http_method == headers[":method"]
    IN IF http_method \in {"PUT", "POST"}
       THEN [st EXCEPT !.reqs = DictSet(@, event.stream_id, headers)]
       ELSE handle_get_delete(st, headers, event.stream_id, out, i)

\* on_request keeping the headers already stored for the stream.
on_request_keep_first(st, event, out, i) ==
    LET headers == OrderedDict(event.headers)
        http_method == headers[":method"]
    IN IF http_method \in {"GET", "DELETE"}
       THEN handle_get_delete(st, headers, event.stream_id, out, i)
       ELSE IF http_method \in {"PUT", "POST"}
       THEN IF event.stream_id \in DOMAIN st.reqs
            THEN st
            ELSE [st EXCEPT !.reqs = DictSet(@, event.stream_id, headers)]
       ELSE [st EXCEPT !.fx = Append(@, [op |-> "warn", ev |-> i,
                                         method |-> headers[":method"]])]

\* The branch of data_received for a RequestReceived event.
on_request(st, event, out, i) ==
    LET headers == OrderedDict(event.headers)
        http_method == headers[":method"]
    IN IF http_method \in {"GET", "DELETE"}
       THEN handle_get_delete(st, headers, event.stream_id, out, i)
       ELSE IF http_method \in {"PUT", "POST"}
       THEN [st EXCEPT !.reqs = DictSet(@, event.stream_id, headers)]
       ELSE [st EXCEPT !.fx = Append(@, [op |-> "warn", ev |-> i,
                                         method |-> headers[":method"]])]

\* on_event taking a change of the remote settings for a fresh start of the
\* session: it acknowledges and drops the pending requests.
on_event_settings_resets(st, event, out, i) ==
    IF event.type = "RequestReceived"
    THEN on_request(st, event, out, i)
    ELSE IF event.type = "DataReceived"
    THEN http_handle_upload(st, event.data, event.stream_id, out, i)
    ELSE IF event.type = "RemoteSettingsChanged"
    THEN [st EXCEPT !.conn = Append(@, "settings_ack"),
                    !.fx = Append(@, [op |-> "ack", ev |-> i]),
                    !.reqs = EmptyDict]
    ELSE st

\* on_event writing the acknowledgement of the settings to the transport at
\* once.
on_event_ack_flushed(st, event, out, i) ==
    IF event.type = "RequestReceived"
    THEN on_request(st, event, out, i)
    ELSE IF event.type = "DataReceived"
    THEN http_handle_upload(st, event.data, event.stream_id, out, i)
    ELSE IF event.type = "RemoteSettingsChanged"
    THEN [st EXCEPT !.fx = Append(Append(@, [op |-> "ack", ev |-> i]),
                                  [op |-> "write", ev |-> i,
                                   data |-> st.conn \o <<"settings_ack">>]),
                    !.conn = <<>>]
    ELSE st

\* The body of the for loop of data_received.
on_event(st, event, out, i) ==
    IF event.type = "RequestReceived"
    THEN on_request(st, event, out, i)
    ELSE IF event.type = "DataReceived"
    THEN http_handle_upload(st, event.data, event.stream_id, out, i)
    ELSE IF event.type = "RemoteSettingsChanged"
    THEN [st EXCEPT !.conn = Append(@, "settings_ack"),
                    !.fx = Append(@, [op |-> "ack", ev |-> i])]
    ELSE st

\* The for loop taking the events from the last to the first.
RECURSIVE for_events_backwards(_, _, _, _)
for_events_backwards(st, evs, outs, i) ==
    IF i > Len(evs) \/ st.raised
    THEN st
    ELSE LET j == Len(evs) - i + 1
         IN for_events_backwards(on_event([st EXCEPT !.n = i], evs[j], outs[j], j),
                                 evs, outs, i + 1)

\* The for loop of data_received from event i on: an exception ends it.
RECURSIVE for_events(_, _, _, _)
for_events(st, evs, outs, i) ==
    IF i > Len(evs) \/ st.raised
    THEN st
    ELSE for_events(on_event([st EXCEPT !.n = i], evs[i], outs[i], i), evs, outs, i + 1)

\* The bytes of one more event reach the socket of session s.
arrive(s, event) ==
    /\ link[s] = "made"
    /\ Len(inbox[s]) < MaxBatch
    /\ inbox' = [inbox EXCEPT ![s] = Append(@, event)]
    /\ events' = [events EXCEPT ![s] = <<>>]
    /\ effects' = [effects EXCEPT ![s] = <<>>]
    /\ raised' = [raised EXCEPT ![s] = FALSE]
    /\ outcomes' = [outcomes EXCEPT ![s] = <<>>]
    /\ UNCHANGED <<link, transport, conn, reqs_waiting_upload, client_cert>>
    /\ UNCHANGED routeVars

\* H2Protocol.connection_made
connection_made(s, peercert) ==
    /\ link[s] = "created"
    /\ link' = [link EXCEPT ![s] = "made"]
    /\ transport' = [transport EXCEPT ![s] = "transport"]
    /\ effects' = [effects EXCEPT ![s] =
                      <<[op |-> "write", ev |-> 0, data |-> conn[s] \o <<"preamble">>]>>]
    /\ conn' = [conn EXCEPT ![s] = <<>>]
    /\ client_cert' = [client_cert EXCEPT ![s] = peercert]
    /\ UNCHANGED <<reqs_waiting_upload, inbox, events, raised, outcomes>>
    /\ UNCHANGED routeVars

\* data_received writing the codec's output after the for loop.
data_received_late_write(s, reply, outs) ==
    /\ link[s] = "made"
    /\ inbox[s] # <<>>
    /\ LET evs == inbox[s]
           written == conn[s] \o reply
           st0 == [reqs |-> reqs_waiting_upload[s], conn |-> <<>>, fx |-> <<>>,
                   n |-> 0, raised |-> FALSE, outs |-> <<>>]
           st == for_events(st0, evs, outs, 1)
       IN /\ reqs_waiting_upload' = [reqs_waiting_upload EXCEPT ![s] = st.reqs]
          /\ conn' = [conn EXCEPT ![s] = st.conn]
          /\ effects' = [effects EXCEPT ![s] =
                            Append(st.fx, [op |-> "write", ev |-> 0, data |-> written])]
          /\ raised' = [raised EXCEPT ![s] = st.raised]
          /\ outcomes' = [outcomes EXCEPT ![s] = st.outs]
          /\ events' = [events EXCEPT ![s] = SubSeq(evs, 1, st.n)]
    /\ inbox' = [inbox EXCEPT ![s] = <<>>]
    /\ UNCHANGED <<link, transport, client_cert>>
    /\ UNCHANGED routeVars

\* data_received with reqs_waiting_upload an attribute of the class, one
\* dictionary shared by every session.
data_received_shared_map(s, reply, outs) ==
    /\ link[s] = "made"
    /\ inbox[s] # <<>>
    /\ LET evs == inbox[s]
           written == conn[s] \o reply
           st0 == [reqs |-> reqs_waiting_upload[s], conn |-> <<>>,
                   fx |-> <<[op |-> "write", ev |-> 0, data |-> written]>>,
                   n |-> 0, raised |-> FALSE, outs |-> <<>>]
           st == for_events(st0, evs, outs, 1)
       IN /\ reqs_waiting_upload' = [t \in Sessions |-> st.reqs]
          /\ conn' = [conn EXCEPT ![s] = st.conn]
          /\ effects' = [effects EXCEPT ![s] = st.fx]
          /\ raised' = [raised EXCEPT ![s] = st.raised]
          /\ outcomes' = [outcomes EXCEPT ![s] = st.outs]
          /\ events' = [events EXCEPT ![s] = SubSeq(evs, 1, st.n)]
    /\ inbox' = [inbox EXCEPT ![s] = <<>>]
    /\ UNCHANGED <<link, transport, client_cert>>
    /\ UNCHANGED routeVars

\* H2Protocol.data_received, on the bytes waiting in the socket.
data_received(s, reply, outs) ==
    /\ link[s] = "made"
    /\ inbox[s] # <<>>
    /\ LET evs == inbox[s]
           written == conn[s] \o reply
           st0 == [reqs |-> reqs_waiting_upload[s], conn |-> <<>>,
                   fx |-> <<[op |-> "write", ev |-> 0, data |-> written]>>,
                   n |-> 0, raised |-> FALSE, outs |-> <<>>]
           st == for_events(st0, evs, outs, 1)
       IN /\ reqs_waiting_upload' = [reqs_waiting_upload EXCEPT ![s] = st.reqs]
          /\ conn' = [conn EXCEPT ![s] = st.conn]
          /\ effects' = [effects EXCEPT ![s] = st.fx]
          /\ raised' = [raised EXCEPT ![s] = st.raised]
          /\ outcomes' = [outcomes EXCEPT ![s] = st.outs]
          /\ events' = [events EXCEPT ![s] = SubSeq(evs, 1, st.n)]
    /\ inbox' = [inbox EXCEPT ![s] = <<>>]
    /\ UNCHANGED <<link, transport, client_cert>>
    /\ UNCHANGED routeVars

\* asyncio.Protocol.connection_lost, which H2Protocol does not override:
\* the event loop calls it once and calls data_received no more; the bytes
\* still in the closed socket are gone.
connection_lost(s) ==
    /\ link[s] = "made"
    /\ link' = [link EXCEPT ![s] = "lost"]
    /\ inbox' = [inbox EXCEPT ![s] = <<>>]
    /\ events' = [events EXCEPT ![s] = <<>>]
    /\ effects' = [effects EXCEPT ![s] = <<>>]
    /\ raised' = [raised EXCEPT ![s] = FALSE]
    /\ outcomes' = [outcomes EXCEPT ![s] = <<>>]
    /\ UNCHANGED <<transport, conn, reqs_waiting_upload, client_cert>>
    /\ UNCHANGED routeVars

----------------------------------------------------------------------------
(* Specifications *)

\* H2Protocol.__init__ for the sessions in made; the others do not exist.
InitSessions(made) ==
    /\ link = [s \in Sessions |-> IF s \in made THEN "created" ELSE "none"]
    /\ transport = [s \in Sessions |-> None]
    /\ conn = [s \in Sessions |-> <<>>]
    /\ reqs_waiting_upload = [s \in Sessions |-> EmptyDict]
    /\ client_cert = [s \in Sessions |-> None]
    /\ inbox = [s \in Sessions |-> <<>>]
    /\ events = [s \in Sessions |-> <<>>]
    /\ effects = [s \in Sessions |-> <<>>]
    /\ raised = [s \in Sessions |-> FALSE]
    /\ outcomes = [s \in Sessions |-> <<>>]

\* HandlerList.__init__, with no session.
InitRoute ==
    /\ handlers = <<>>
    /\ default_handler = None
    /\ api = [op |-> "init"]
    /\ defaults_log = <<>>
    /\ InitSessions({})

NextRoute ==
    \/ \E c \in Conds, h \in RouteHandlers : register_handler(c, h)
    \/ \E h \in DefaultHandlers : register_default_handler(h)
    \/ \E m \in Methods, p \in Paths : call_get_handler(m, p)

\* The route table as a library: any sequence of its three operations.
SpecRoute == InitRoute /\ [][NextRoute]_vars

\* The configuration run() reads: the root and the data prefix of the
\* primary API and of the access-control (NACM) API.  The two namespaces are
\* independent: no path belongs to both.  In the first and the third the
\* roots share no character, in the second the NACM root extends the API
\* root, as "/restconf_nacm" extends "/restconf".
Configs ==
    { [API_ROOT |-> <<"r">>, API_ROOT_data |-> <<"r", "d">>,
       NACM_API_ROOT |-> <<"n">>, NACM_API_ROOT_data |-> <<"n", "d">>],
      [API_ROOT |-> <<"r">>, API_ROOT_data |-> <<"r", "d">>,
       NACM_API_ROOT |-> <<"r", "n">>, NACM_API_ROOT_data |-> <<"r", "n", "d">>],
      [API_ROOT |-> <<"n">>, API_ROOT_data |-> <<"n", "d">>,
       NACM_API_ROOT |-> <<"r">>, NACM_API_ROOT_data |-> <<"r", "d">>] }

\* Paths asked of the table run() composes: the roots, the data prefixes,
\* paths under them, and paths of neither namespace.
RunPaths ==
    { <<"r">>, <<"r", "d">>, <<"r", "d", "x">>,
      <<"n">>, <<"n", "d">>, <<"n", "d", "x">>,
      <<"r", "n">>, <<"r", "n", "d">>, <<"r", "n", "d", "x">>,
      <<"x">>, <<"r", "x">> }

\* The table of run() with the static-content entry registered first.
RunHandlers_static_first(cfg) ==
    << <<[kind |-> "method", m |-> "GET", arg |-> <<>>], "get_file">>,
       <<[kind |-> "eq", m |-> "GET", arg |-> cfg.API_ROOT], "api_get_root">>,
       <<[kind |-> "startswith", m |-> "GET", arg |-> cfg.API_ROOT_data], "api_get">>,
       <<[kind |-> "startswith", m |-> "POST", arg |-> cfg.API_ROOT_data], "api_post">>,
       <<[kind |-> "startswith", m |-> "PUT", arg |-> cfg.API_ROOT_data], "api_put">>,
       <<[kind |-> "startswith", m |-> "DELETE", arg |-> cfg.API_ROOT_data], "api_delete">>,
       <<[kind |-> "eq", m |-> "GET", arg |-> cfg.NACM_API_ROOT], "api_get_root">>,
       <<[kind |-> "startswith", m |-> "GET", arg |-> cfg.NACM_API_ROOT_data], "nacm_api_get">>,
       <<[kind |-> "startswith", m |-> "POST", arg |-> cfg.NACM_API_ROOT_data], "nacm_api_post">>,
       <<[kind |-> "startswith", m |-> "PUT", arg |-> cfg.NACM_API_ROOT_data], "nacm_api_put">>,
       <<[kind |-> "startswith", m |-> "DELETE", arg |-> cfg.NACM_API_ROOT_data], "nacm_api_delete">> >>

\* The register_handler calls of run(), in their order.
RunHandlers(cfg) ==
    << <<[kind |-> "eq", m |-> "GET", arg |-> cfg.API_ROOT], "api_get_root">>,
       <<[kind |-> "startswith", m |-> "GET", arg |-> cfg.API_ROOT_data], "api_get">>,
       <<[kind |-> "startswith", m |-> "POST", arg |-> cfg.API_ROOT_data], "api_post">>,
       <<[kind |-> "startswith", m |-> "PUT", arg |-> cfg.API_ROOT_data], "api_put">>,
       <<[kind |-> "startswith", m |-> "DELETE", arg |-> cfg.API_ROOT_data], "api_delete">>,
       <<[kind |-> "eq", m |-> "GET", arg |-> cfg.NACM_API_ROOT], "api_get_root">>,
       <<[kind |-> "startswith", m |-> "GET", arg |-> cfg.NACM_API_ROOT_data], "nacm_api_get">>,
       <<[kind |-> "startswith", m |-> "POST", arg |-> cfg.NACM_API_ROOT_data], "nacm_api_post">>,
       <<[kind |-> "startswith", m |-> "PUT", arg |-> cfg.NACM_API_ROOT_data], "nacm_api_put">>,
       <<[kind |-> "startswith", m |-> "DELETE", arg |-> cfg.NACM_API_ROOT_data], "nacm_api_delete">>,
       <<[kind |-> "method", m |-> "GET", arg |-> <<>>], "get_file">> >>

\* run() up to the start of the server: it composes the route table once and
\* registers no default handler.
run(cfg) ==
    /\ api.op = "init"
    /\ handlers = <<>>
    /\ handlers' = RunHandlers(cfg)
    /\ api' = [op |-> "run"]
    /\ UNCHANGED <<default_handler, defaults_log>>
    /\ UNCHANGED sessionVars

NextRun ==
    \/ \E cfg \in Configs : run(cfg)
    \/ \E m \in Methods, p \in RunPaths : api.op # "init" /\ call_get_handler(m, p)

\* The route table of the server: run() composes it, then requests are
\* resolved against it.
SpecRun == InitRoute /\ [][NextRun]_vars

\* h2_handlers.handlers as composed before the server starts.  The entries
\* have the shapes of those run() registers: an exact path and a path prefix
\* for GET, which overlap, and an entry for a method that carries a body.
\* DELETE and POST have no entry: their requests fall through to the default
\* handler.
StartupHandlers ==
    << <<[kind |-> "eq", m |-> "GET", arg |-> <<"a">>], "hA">>,
       <<[kind |-> "startswith", m |-> "GET", arg |-> <<"a">>], "hB">>,
       <<[kind |-> "eq", m |-> "PUT", arg |-> <<"a">>], "hB">> >>

\* One connection accepted by a server whose route table is composed, with
\* or without a default handler.
Init ==
    /\ handlers = StartupHandlers
    /\ default_handler \in {None, "hD"}
    /\ api = [op |-> "init"]
    /\ defaults_log = IF default_handler = None THEN <<>> ELSE <<default_handler>>
    /\ InitSessions({"A"})

Next ==
    \/ \E s \in Sessions, c \in PeerCerts : connection_made(s, c)
    \/ \E s \in Sessions, e \in H2Events : arrive(s, e)
    \/ \E s \in Sessions, r \in Replies, outs \in [1..MaxBatch -> Outcomes] :
          data_received(s, r, outs)
    \/ \E s \in Sessions : connection_lost(s)

Spec == Init /\ [][Next]_vars

\* The events two concurrent sessions receive: uploads on the same stream id
\* with different headers, their body data, and a bodyless request.
TwoEvents ==
    { RequestReceived(1, "PUT", <<"a">>),
      RequestReceived(1, "PUT", <<"a", "?", "b", "?", "a">>),
      RequestReceived(1, "GET", <<"a">>),
      DataReceived(1, "b1") }

\* Two connections accepted by one server: create_server makes one
\* H2Protocol instance for each.
InitTwo ==
    /\ handlers = StartupHandlers
    /\ default_handler = None
    /\ api = [op |-> "init"]
    /\ defaults_log = <<>>
    /\ InitSessions({"A", "B"})

NextTwo ==
    \/ \E s \in Sessions, c \in PeerCerts : connection_made(s, c)
    \/ \E s \in Sessions, e \in TwoEvents : arrive(s, e)
    \/ \E s \in Sessions, r \in Replies, outs \in [1..MaxBatch -> Outcomes] :
          data_received(s, r, outs)
    \/ \E s \in Sessions : connection_lost(s)

\* The callbacks of the two sessions interleaved in any order.
SpecTwo == InitTwo /\ [][NextTwo]_vars

----------------------------------------------------------------------------
(* Claims about the route table, checked under SpecRoute. *)

\* The indices of the entries whose condition holds for (method, path).
Matching(method, path) ==
    {i \in 1..Len(handlers) : Holds(handlers[i][1], method, path)}

\* C1: when at least one registered condition holds for (method, path),
\* get_handler returns the handler of the matching entry registered first,
\* whatever later entries match and whatever the default handler is.
C1_FirstMatchWins ==
    api.op = "get_handler" =>
        LET M == Matching(api.method, api.path)
        IN M # {} =>
              \E i \in M : /\ \A j \in M : i <= j
                           /\ api.ret = handlers[i][2]

\* C1 witness: two entries with different handlers match, a default handler
\* is set, and the call returned the handler of the earlier entry.
C1_Witness ==
    /\ api.op = "get_handler"
    /\ default_handler # None
    /\ \E i, j \in Matching(api.method, api.path) :
          /\ i < j
          /\ handlers[i][2] # handlers[j][2]
          /\ api.ret = handlers[i][2]

\* C2: when no registered condition holds for (method, path), get_handler
\* returns the argument of the latest register_default_handler call, or None
\* when there was no such call; a table whose conditions all name another
\* method is one such case.
C2_DefaultWhenNoMatch ==
    api.op = "get_handler" =>
        LET dflt == IF defaults_log = <<>> THEN None
                    ELSE defaults_log[Len(defaults_log)]
        IN /\ Matching(api.method, api.path) = {} => api.ret = dflt
           /\ (\A i \in 1..Len(handlers) : handlers[i][1].m # api.method)
                 => api.ret = dflt

\* C2 witness: the default handler was registered twice with different
\* handlers, an entry tests the same path for another method, and the call
\* returned the handler registered last.
C2_Witness ==
    /\ api.op = "get_handler"
    /\ Len(defaults_log) = 2
    /\ defaults_log[1] # defaults_log[2]
    /\ api.ret = defaults_log[2]
    /\ Matching(api.method, api.path) = {}
    /\ \E i \in 1..Len(handlers) :
          /\ handlers[i][1].kind = "eq"
          /\ handlers[i][1].arg = api.path
          /\ handlers[i][1].m # api.method

----------------------------------------------------------------------------
(* Claims about a session, checked under Spec.  They are stated on one     *)
(* data_received step of a session s: inbox[s] is the batch of events it   *)
(* decodes, reqs_waiting_upload[s] the pending map before the step, and    *)
(* the primed variables what the step leaves.                              *)

BodyMethods == {"PUT", "POST"}

BodylessMethods == {"GET", "DELETE"}

\* The value of header name in the (name, value) pairs of a request event.
Hdr(e, name) ==
    e.headers[CHOOSE k \in 1..Len(e.headers) : e.headers[k][1] = name][2]

\* The header mapping a request event carries.
HeaderMap(e) == [n \in {":method", ":path"} |-> Hdr(e, n)]

IsRequest(e, sid, methods) ==
    /\ e.type = "RequestReceived"
    /\ e.stream_id = sid
    /\ Hdr(e, ":method") \in methods

IsData(e, sid) ==
    /\ e.type = "DataReceived"
    /\ e.stream_id = sid

\* The part of a path before its first "?", the whole path if it has none.
BeforeQuery(p) ==
    LET q == {k \in 1..Len(p) : p[k] = "?"}
    IN IF q = {} THEN p
       ELSE SubSeq(p, 1, (CHOOSE k \in q : \A j \in q : k <= j) - 1)

\* What the route table resolves a header mapping to.
Route(hd) == get_handler(h2_handlers, hd[":method"], BeforeQuery(hd[":path"]))

\* The step is a data_received of session s.
Step(s) ==
    /\ inbox[s] # <<>>
    /\ inbox'[s] = <<>>
    /\ link'[s] = "made"

\* The number of events of the batch the step processed: an exception ends
\* the step at the event that raised it.
Done(s) == Len(events'[s])

\* The handler invocations the step made while processing event i.
CallsAt(s, i) ==
    {k \in 1..Len(effects'[s]) :
        effects'[s][k].op = "call" /\ effects'[s][k].ev = i}

\* Processing event i ended by an exception.
RaisedAt(s, i) == raised'[s] /\ Done(s) = i

\* The header mappings (none or one) stored for stream sid when event i of the
\* batch is about to be processed: those of the latest PUT/POST request event
\* for sid that no body-data event for sid has followed.
StoredBefore(s, i, sid) ==
    LET B == inbox[s]
        J == {j \in 1..(i - 1) : IsRequest(B[j], sid, BodyMethods) \/ IsData(B[j], sid)}
    IN IF J = {}
       THEN IF sid \in DOMAIN reqs_waiting_upload[s]
            THEN {reqs_waiting_upload[s][sid]} ELSE {}
       ELSE LET j == CHOOSE j \in J : \A k \in J : k <= j
            IN IF B[j].type = "RequestReceived" THEN {HeaderMap(B[j])} ELSE {}

\* A PUT/POST request event for sid is processed after event i.
StoredAfter(s, i, sid) ==
    \E k \in (i + 1)..Done(s) : IsRequest(inbox[s][k], sid, BodyMethods)

\* A body-data event for sid is processed after event i.
DataAfter(s, i, sid) ==
    \E k \in (i + 1)..Done(s) : IsData(inbox[s][k], sid)

C3_Step(s) ==
    \A i \in 1..Done(s), sid \in Streams :
        LET e == inbox[s][i] IN
        /\ (IsRequest(e, sid, BodyMethods) /\ ~StoredAfter(s, i, sid) /\ ~DataAfter(s, i, sid))
              => /\ sid \in DOMAIN reqs_waiting_upload'[s]
                 /\ reqs_waiting_upload'[s][sid] = HeaderMap(e)
        /\ IsData(e, sid) =>
              \A hd \in StoredBefore(s, i, sid) :
                 /\ Route(hd) # None =>
                       /\ Cardinality(CallsAt(s, i)) = 1
                       /\ \A k \in CallsAt(s, i) :
                             effects'[s][k] =
                                [op |-> "call", ev |-> i, form |-> "body", h |-> Route(hd),
                                 headers |-> hd, data |-> e.data, stream_id |-> sid]
                 /\ ~StoredAfter(s, i, sid) => sid \notin DOMAIN reqs_waiting_upload'[s]

\* C3: a PUT or POST request event for stream S stores its header mapping
\* under S; the body-data event for S that follows it invokes the handler the
\* route table resolves (method, path before "?") to exactly once, in the
\* body-bearing form, with the stored headers, the bytes of that event and S,
\* and removes the pending entry of S.
C3_UploadDispatchedOnce ==
    [][\A s \in Sessions : Step(s) => C3_Step(s)]_vars

\* C3 witness: the last batch was one body-data event for a stream whose PUT
\* or POST headers came in an earlier batch; it made exactly one body-bearing
\* call with that event's bytes, and the stream is no longer pending.
C3_Witness ==
    \E s \in Sessions :
        /\ Len(events[s]) = 1
        /\ events[s][1].type = "DataReceived"
        /\ Len(effects[s]) = 2
        /\ effects[s][2].op = "call"
        /\ effects[s][2].form = "body"
        /\ effects[s][2].data = events[s][1].data
        /\ effects[s][2].stream_id = events[s][1].stream_id
        /\ effects[s][2].headers[":method"] \in BodyMethods
        /\ events[s][1].stream_id \notin DOMAIN reqs_waiting_upload[s]

C4_Step(s) ==
    \A i \in 1..Done(s), sid \in Streams :
        LET e == inbox[s][i] IN
        IsData(e, sid) =>
            /\ StoredBefore(s, i, sid) = {} =>
                  /\ CallsAt(s, i) = {}
                  /\ ~RaisedAt(s, i)
                  /\ ~StoredAfter(s, i, sid) => sid \notin DOMAIN reqs_waiting_upload'[s]
                  /\ Len(inbox[s]) = 1 => reqs_waiting_upload'[s] = reqs_waiting_upload[s]
            /\ \A j \in 1..(i - 1) :
                  (IsData(inbox[s][j], sid)
                     /\ \A k \in (j + 1)..(i - 1) : ~IsRequest(inbox[s][k], sid, BodyMethods))
                  => /\ CallsAt(s, i) = {}
                     /\ \A k \in CallsAt(s, j) : effects'[s][k].data = inbox[s][j].data

\* C4: a body-data event for a stream id with no pending entry (never seen,
\* a GET/DELETE stream, or consumed by an earlier body-data event) invokes no
\* handler, raises nothing and leaves the pending map as it was; of several
\* body-data events for one upload only the first reaches the handler.
C4_DataWithoutPendingIsNoOp ==
    [][\A s \in Sessions : Step(s) => C4_Step(s)]_vars

\* C4 witness: a batch of two body-data events for a pending stream made one
\* call, with the bytes of the first, and both events were processed.
C4_Witness ==
    \E s \in Sessions :
        /\ Len(events[s]) = 2
        /\ events[s][1].type = "DataReceived"
        /\ events[s][2].type = "DataReceived"
        /\ events[s][1].stream_id = events[s][2].stream_id
        /\ events[s][1].data # events[s][2].data
        /\ ~raised[s]
        /\ Len(effects[s]) = 2
        /\ effects[s][2].op = "call"
        /\ effects[s][2].ev = 1
        /\ effects[s][2].data = events[s][1].data

C5_Step(s) ==
    /\ Step(s) =>
          /\ \A i \in 1..Done(s), sid \in Streams :
                IsRequest(inbox[s][i], sid, BodyMethods) => CallsAt(s, i) = {}
          /\ \A k \in 1..Len(effects'[s]) :
                (effects'[s][k].op = "call" /\ effects'[s][k].form = "body")
                   => IsData(inbox[s][effects'[s][k].ev], effects'[s][k].stream_id)
    /\ ~Step(s) =>
          \/ effects'[s] = effects[s]
          \/ \A k \in 1..Len(effects'[s]) : effects'[s][k].op # "call"
    /\ \A sid \in DOMAIN reqs_waiting_upload[s] :
          ~(Step(s) /\ \E i \in 1..Done(s) : IsData(inbox[s][i], sid))
             => sid \in DOMAIN reqs_waiting_upload'[s]

\* C5: a PUT or POST request event invokes no handler itself; a body-bearing
\* call is only ever made by a body-data event for its stream; and an entry of
\* the pending map stays in the map over every step that does not process a
\* body-data event for its stream id.
C5_PendingStaysUntilData ==
    [][\A s \in Sessions : C5_Step(s)]_vars

\* C5 witness: a stream is pending after a batch that dispatched a request of
\* another stream and consumed that other stream's upload.
C5_Witness ==
    \E s \in Sessions :
        /\ 1 \in DOMAIN reqs_waiting_upload[s]
        /\ Len(events[s]) = 2
        /\ IsRequest(events[s][1], 3, BodyMethods)
        /\ IsData(events[s][2], 3)
        /\ \E k \in 1..Len(effects[s]) : effects[s][k].op = "call"

C6_Step(s) ==
    \A i \in 1..Done(s), sid \in Streams :
        LET e == inbox[s][i] IN
        IsRequest(e, sid, BodylessMethods) =>
            /\ Route(HeaderMap(e)) # None =>
                  /\ Cardinality(CallsAt(s, i)) = 1
                  /\ \A k \in CallsAt(s, i) :
                        /\ effects'[s][k] =
                              [op |-> "call", ev |-> i, form |-> "bodyless",
                               h |-> Route(HeaderMap(e)), headers |-> HeaderMap(e),
                               stream_id |-> sid]
                        /\ \A j \in 1..Len(effects'[s]) :
                              /\ effects'[s][j].ev < i => j < k
                              /\ effects'[s][j].ev > i => j > k
                  /\ RaisedAt(s, i) => Len(effects'[s]) \in CallsAt(s, i)
            /\ Route(HeaderMap(e)) = None => CallsAt(s, i) = {} /\ ~RaisedAt(s, i)
            /\ (StoredBefore(s, i, sid) = {} /\ ~StoredAfter(s, i, sid))
                  => sid \notin DOMAIN reqs_waiting_upload'[s]
            /\ Len(inbox[s]) = 1 => reqs_waiting_upload'[s] = reqs_waiting_upload[s]

\* C6: a GET or DELETE request event is routed and dispatched while that event
\* is processed: the resolved handler is invoked once, in the bodyless form,
\* after everything earlier events did and before anything later events do
\* (and nothing later is done if it raises), and no pending entry is made.
C6_BodylessDispatchedInline ==
    [][\A s \in Sessions : Step(s) => C6_Step(s)]_vars

\* C6 witness: a DELETE request and then a GET request on the same stream in
\* one batch were dispatched in that order, and the stream is not pending.
C6_Witness ==
    \E s \in Sessions, sid \in Streams :
        /\ Len(events[s]) = 2
        /\ IsRequest(events[s][1], sid, {"DELETE"})
        /\ IsRequest(events[s][2], sid, {"GET"})
        /\ Len(effects[s]) = 3
        /\ effects[s][2].op = "call" /\ effects[s][2].ev = 1
        /\ effects[s][2].form = "bodyless"
        /\ effects[s][3].op = "call" /\ effects[s][3].ev = 2
        /\ sid \notin DOMAIN reqs_waiting_upload[s]

C7_Step(s) ==
    \A i \in 1..Done(s), sid \in Streams :
        LET e == inbox[s][i] IN
        IsRequest(e, sid, Methods \ (BodyMethods \cup BodylessMethods)) =>
            /\ CallsAt(s, i) = {}
            /\ \A k \in 1..Len(effects'[s]) :
                  effects'[s][k].ev = i => effects'[s][k].op = "warn"
            /\ ~RaisedAt(s, i)
            /\ i < Len(inbox[s]) => Done(s) > i
            /\ (StoredBefore(s, i, sid) = {} /\ ~StoredAfter(s, i, sid))
                  => sid \notin DOMAIN reqs_waiting_upload'[s]
            /\ \A hd \in StoredBefore(s, i, sid) :
                  (~StoredAfter(s, i, sid) /\ ~DataAfter(s, i, sid))
                  => /\ sid \in DOMAIN reqs_waiting_upload'[s]
                     /\ reqs_waiting_upload'[s][sid] = hd
            /\ Len(inbox[s]) = 1 => reqs_waiting_upload'[s] = reqs_waiting_upload[s]

\* C7: a request event whose method is none of GET, DELETE, PUT, POST invokes
\* no handler, not even the default one, writes nothing, neither makes nor
\* removes a pending entry, raises nothing, and the next event of the batch
\* is processed.
C7_UnknownMethodDropped ==
    [][\A s \in Sessions : Step(s) => C7_Step(s)]_vars

\* C7 witness: with a default handler registered, a batch of a PATCH request
\* and a GET request only warned for the first and dispatched the second.
C7_Witness ==
    \E s \in Sessions :
        /\ default_handler # None
        /\ Len(events[s]) = 2
        /\ IsRequest(events[s][1], 1, {"PATCH"})
        /\ IsRequest(events[s][2], 1, {"GET"})
        /\ Len(effects[s]) = 3
        /\ effects[s][2].op = "warn"
        /\ effects[s][3].op = "call"

\* No condition holds for the request of header mapping hd and no default
\* handler is registered.
Unrouted(hd) ==
    /\ Matching(hd[":method"], BeforeQuery(hd[":path"])) = {}
    /\ default_handler = None

C8_Step(s) ==
    \A i \in 1..Done(s), sid \in Streams :
        LET e == inbox[s][i] IN
        /\ (IsRequest(e, sid, BodylessMethods) /\ Unrouted(HeaderMap(e)))
              => /\ CallsAt(s, i) = {}
                 /\ ~RaisedAt(s, i)
                 /\ i < Len(inbox[s]) => Done(s) > i
        /\ IsData(e, sid) =>
              \A hd \in StoredBefore(s, i, sid) :
                 Unrouted(hd)
                 => /\ CallsAt(s, i) = {}
                    /\ ~RaisedAt(s, i)
                    /\ i < Len(inbox[s]) => Done(s) > i
                    /\ ~StoredAfter(s, i, sid) => sid \notin DOMAIN reqs_waiting_upload'[s]

C9_Step(s) ==
    /\ \A i \in 1..Done(s), sid \in Streams :
          LET e == inbox[s][i] IN
          /\ (IsRequest(e, sid, BodylessMethods) /\ Route(HeaderMap(e)) # None)
                => CallsAt(s, i) # {}
          /\ IsData(e, sid) =>
                \A hd \in StoredBefore(s, i, sid) : Route(hd) # None => CallsAt(s, i) # {}
          /\ (IsRequest(e, sid, BodyMethods) /\ ~StoredAfter(s, i, sid) /\ ~DataAfter(s, i, sid))
                => /\ sid \in DOMAIN reqs_waiting_upload'[s]
                   /\ reqs_waiting_upload'[s][sid][":path"] = Hdr(e, ":path")
    /\ \A k \in 1..Len(effects'[s]) :
          LET c == effects'[s][k] IN
          c.op = "call" =>
             /\ c.h = get_handler(h2_handlers, c.headers[":method"],
                                  BeforeQuery(c.headers[":path"]))
             /\ c.form = "bodyless" => c.headers[":path"] = Hdr(inbox[s][c.ev], ":path")
             /\ c.form = "body" =>
                   \E hd \in StoredBefore(s, c.ev, c.stream_id) :
                      c.headers[":path"] = hd[":path"]

\* C9: in bodyless and in body-bearing dispatch alike, the handler invoked is
\* the one the route table gives for the method and the part of :path before
\* its first "?", so the query decides nothing, while the header mapping
\* passed to the handler holds the :path as it was received.
C9_QueryStrippedForRouting ==
    [][\A s \in Sessions : Step(s) => C9_Step(s)]_vars

\* C9 witness: an upload to "a?b?a" reached the handler registered for PUT on
\* exactly "a", which was given the :path "a?b?a".
C9_Witness ==
    \E s \in Sessions : \E k \in 1..Len(effects[s]) :
        /\ effects[s][k].op = "call"
        /\ effects[s][k].form = "body"
        /\ effects[s][k].headers[":method"] = "PUT"
        /\ effects[s][k].headers[":path"] = <<"a", "?", "b", "?", "a">>
        /\ effects[s][k].h = "hB"
        /\ default_handler # "hB"

\* C10: once the connection of a session is lost, the session holds no state
\* any more: its pending map is empty and it invokes no handler.
C10_ClosedSessionHoldsNothing ==
    \A s \in Sessions :
        link[s] = "lost" =>
            /\ reqs_waiting_upload[s] = EmptyDict
            /\ \A k \in 1..Len(effects[s]) : effects[s][k].op # "call"

C11_Step(s) ==
    /\ link[s] = "made"
    /\ transport[s] # None
    /\ Len(effects'[s]) >= 1
    /\ effects'[s][1].op = "write"
    /\ effects'[s][1].ev = 0
    /\ \E r \in Replies : effects'[s][1].data = conn[s] \o r
    /\ \A k \in 2..Len(effects'[s]) : effects'[s][k].ev >= 1

C11_Made(s) ==
    /\ inbox[s] = <<>>
    /\ events'[s] = <<>>
    /\ effects'[s] = <<[op |-> "write", ev |-> 0, data |-> <<"preamble">>]>>

\* C11: in every data_received step the bytes the codec produced for the
\* inbound bytes are written to the transport before the first event of the
\* step is processed, hence before any handler is invoked in that step; and
\* connection_made writes the connection preamble before any inbound event
\* is processed.
C11_OutputWrittenBeforeEvents ==
    [][\A s \in Sessions :
          /\ Step(s) => C11_Step(s)
          /\ (link[s] = "created" /\ link'[s] = "made") => C11_Made(s)]_vars

\* C11 witness: the last data_received wrote the codec's reply and then
\* invoked a handler for the first event of its batch.
C11_Witness ==
    \E s \in Sessions :
        /\ Len(effects[s]) >= 2
        /\ effects[s][1] = [op |-> "write", ev |-> 0, data |-> <<"reply">>]
        /\ effects[s][2].op = "call"
        /\ effects[s][2].ev = 1

\* The positions of the handler invocations in the effects of session s.
Calls(s) == {k \in 1..Len(effects[s]) : effects[s][k].op = "call"}

\* The positions of the transport writes in the effects of session s.
Writes(s) == {k \in 1..Len(effects[s]) : effects[s][k].op = "write"}

\* C13: when a handler raises during dispatch, the dispatcher neither catches
\* nor translates the error: it propagates out of data_received, the raising
\* invocation is the last thing the step did, and the dispatcher writes no
\* error response (the only write of the step is the one made before the
\* first event).
C13_HandlerErrorPropagates ==
    \A s \in Sessions :
        /\ Len(outcomes[s]) = Cardinality(Calls(s))
        /\ \A k \in 1..Len(outcomes[s]) :
              outcomes[s][k] = "raise" =>
                 /\ raised[s]
                 /\ k = Len(outcomes[s])
                 /\ Len(effects[s]) \in Calls(s)
                 /\ effects[s][Len(effects[s])].ev = Len(events[s])
                 /\ Writes(s) = {1}

\* C13 witness: the second event of a batch invoked a handler that raised,
\* after the handler of the first event had returned.
C13_Witness ==
    \E s \in Sessions :
        /\ raised[s]
        /\ outcomes[s] = <<"return", "raise">>
        /\ Len(events[s]) = 2
        /\ Len(effects[s]) = 3
        /\ effects[s][3].op = "call"

\* Everything session t holds is left as it was.
Untouched(t) ==
    /\ link'[t] = link[t]
    /\ transport'[t] = transport[t]
    /\ conn'[t] = conn[t]
    /\ reqs_waiting_upload'[t] = reqs_waiting_upload[t]
    /\ client_cert'[t] = client_cert[t]
    /\ inbox'[t] = inbox[t]
    /\ events'[t] = events[t]
    /\ effects'[t] = effects[t]
    /\ raised'[t] = raised[t]
    /\ outcomes'[t] = outcomes[t]

C14_Step(s) ==
    /\ \A t \in Sessions \ {s} : Untouched(t)
    /\ C3_Step(s)
    /\ C4_Step(s)
    /\ C6_Step(s)

\* C14: sessions share no mutable state.  With the callbacks of two sessions
\* interleaved in any order, a callback of one session leaves everything the
\* other holds, its pending map first of all, as it was; a body-data event
\* for stream S on one session neither consumes nor dispatches the request
\* pending for S on the other; and the handlers a session invokes are
\* decided by its own batch and its own pending map alone.  Checked under
\* SpecTwo.
C14_SessionsAreIsolated ==
    [][\A s \in Sessions :
          /\ Step(s) => C14_Step(s)
          /\ ~Untouched(s) => \A t \in Sessions \ {s} : Untouched(t)]_vars

\* C14 witness: both sessions held a pending request on stream 1, with
\* different headers; the body data of one was dispatched with its own
\* headers, and the request of the other is still pending.
C14_Witness ==
    \E s \in Sessions : \E t \in Sessions \ {s} :
        /\ events[s] = <<DataReceived(1, "b1")>>
        /\ Len(effects[s]) = 2
        /\ effects[s][2].op = "call"
        /\ effects[s][2].stream_id = 1
        /\ 1 \notin DOMAIN reqs_waiting_upload[s]
        /\ 1 \in DOMAIN reqs_waiting_upload[t]
        /\ reqs_waiting_upload[t][1] # effects[s][2].headers

\* The place of the invocation at position k among the invocations of the
\* step: 1 for the first.
CallRank(s, k) ==
    Cardinality({j \in 1..k : effects'[s][j].op = "call"})

C15_Step(s) ==
    /\ events'[s] = SubSeq(inbox[s], 1, Done(s))
    /\ Done(s) = Len(inbox[s]) \/ raised'[s]
    /\ \A j, k \in 1..Len(effects'[s]) :
          j < k => effects'[s][j].ev <= effects'[s][k].ev
    /\ \A i \in 1..Done(s) : Cardinality(CallsAt(s, i)) <= 1
    /\ \A k \in 1..Len(effects'[s]) :
          LET c == effects'[s][k] IN
          c.op = "call" =>
             /\ c.ev \in 1..Done(s)
             /\ c.form = "bodyless" => IsRequest(inbox[s][c.ev], c.stream_id, BodylessMethods)
             /\ c.form = "body" => IsData(inbox[s][c.ev], c.stream_id)
             /\ c.ev < Done(s) => outcomes'[s][CallRank(s, k)] = "return"

\* C15: within one connection the events of a batch are processed one after
\* the other in the order the codec yields them, and dispatch is inline: an
\* event invokes at most one handler, the invocation made for event i has
\* returned before event i+1 is taken up, so the handler invocations come in
\* the order of the events that complete their requests (GET/DELETE request
\* events and consuming body-data events), and no event is processed after
\* an invocation that did not return.
C15_EventsInOrderInline ==
    [][\A s \in Sessions : Step(s) => C15_Step(s)]_vars

\* C15 witness: one batch completed two requests, a bodyless one by its first
\* event and an upload by its second, and invoked their handlers in that
\* order.
C15_Witness ==
    \E s \in Sessions :
        /\ Len(events[s]) = 2
        /\ Len(effects[s]) = 3
        /\ effects[s][2].op = "call"
        /\ effects[s][2].form = "bodyless"
        /\ effects[s][2].ev = 1
        /\ effects[s][3].op = "call"
        /\ effects[s][3].form = "body"
        /\ effects[s][3].ev = 2
        /\ outcomes[s] = <<"return", "return">>

\* The events of the batch the step processed that are changes of the
\* remote settings.
SettingsEvents(s) ==
    {i \in 1..Done(s) : inbox[s][i].type = "RemoteSettingsChanged"}

C16_Step(s) ==
    /\ \A i \in SettingsEvents(s) :
          /\ \A k \in 1..Len(effects'[s]) :
                effects'[s][k].ev = i => effects'[s][k] = [op |-> "ack", ev |-> i]
          /\ Cardinality({k \in 1..Len(effects'[s]) : effects'[s][k].ev = i}) = 1
          /\ ~RaisedAt(s, i)
    /\ conn'[s] = [k \in 1..Cardinality(SettingsEvents(s)) |-> "settings_ack"]
    /\ client_cert'[s] = client_cert[s]
    /\ transport'[s] = transport[s]
    /\ SettingsEvents(s) = 1..Len(inbox[s]) =>
          /\ reqs_waiting_upload'[s] = reqs_waiting_upload[s]
          /\ outcomes'[s] = <<>>
          /\ Len(effects'[s]) = 1 + Len(inbox[s])

\* C16: processing a remote-settings-changed event acknowledges the settings
\* on the codec and does nothing else: it invokes no handler and leaves the
\* pending map and the captured peer certificate as they were.
C16_SettingsOnlyAcknowledged ==
    [][\A s \in Sessions : Step(s) => C16_Step(s)]_vars

\* C16 witness: a batch of one settings change was processed while a request
\* was pending; the acknowledgement is queued in the codec and the request
\* is still pending.
C16_Witness ==
    \E s \in Sessions :
        /\ events[s] = <<RemoteSettingsChanged>>
        /\ Len(effects[s]) = 2
        /\ effects[s][2] = [op |-> "ack", ev |-> 1]
        /\ conn[s] = <<"settings_ack">>
        /\ reqs_waiting_upload[s] # EmptyDict
        /\ client_cert[s] = "cert"

\* The request-headers events the step processed.
RequestEvents(s) ==
    {i \in 1..Done(s) : inbox[s][i].type = "RequestReceived"}

\* The handler invocations the step made.
StepCalls(s) ==
    {k \in 1..Len(effects'[s]) : effects'[s][k].op = "call"}

C17_Step(s) ==
    /\ \A sid \in DOMAIN reqs_waiting_upload'[s] :
          reqs_waiting_upload'[s][sid][":method"] \in BodyMethods
    /\ \A k \in StepCalls(s) :
          LET c == effects'[s][k] IN
          /\ c.form = "body" => c.headers[":method"] \in BodyMethods
          /\ c.form = "bodyless" => c.headers[":method"] \in BodylessMethods
    /\ Cardinality(StepCalls(s)) + Cardinality(DOMAIN reqs_waiting_upload'[s])
          <= Cardinality(RequestEvents(s)) + Cardinality(DOMAIN reqs_waiting_upload[s])

\* C17: every entry of the pending map holds headers whose method is PUT or
\* POST; every body-bearing invocation is for PUT or POST headers and every
\* bodyless one for GET or DELETE headers; and a session never makes more
\* handler invocations than it has processed request-headers events.  The
\* count is stated on each step: the invocations made plus the entries
\* pending afterwards are at most the request-headers events processed plus
\* the entries pending before.  A session starts with an empty map, so the
\* sum over its steps bounds its invocations by its request-headers events.
C17_PendingAndCallsWellFormed ==
    [][\A s \in Sessions : Step(s) => C17_Step(s)]_vars

\* C17 witness: a step invoked a handler in the body-bearing form for a
\* stream whose headers an earlier step had stored, and stored the headers
\* of a new upload.
C17_Witness ==
    \E s \in Sessions :
        /\ Len(events[s]) = 2
        /\ events[s][1].type = "DataReceived"
        /\ events[s][2].type = "RequestReceived"
        /\ Len(effects[s]) = 2
        /\ effects[s][2].op = "call"
        /\ effects[s][2].form = "body"
        /\ events[s][2].stream_id \in DOMAIN reqs_waiting_upload[s]

\* Event j is the first body-data event for sid processed after event i,
\* and no PUT/POST request event for sid lies between them.
NextDataAfter(s, i, sid, j) ==
    /\ j \in (i + 1)..Done(s)
    /\ IsData(inbox[s][j], sid)
    /\ \A k \in (i + 1)..(j - 1) :
          ~IsData(inbox[s][k], sid) /\ ~IsRequest(inbox[s][k], sid, BodyMethods)

C18_Step(s) ==
    \A i \in 1..Done(s), sid \in Streams :
        LET e == inbox[s][i] IN
        \A old \in StoredBefore(s, i, sid) :
           /\ IsRequest(e, sid, BodyMethods) =>
                 /\ \A k \in 1..Len(effects'[s]) : effects'[s][k].ev # i
                 /\ ~RaisedAt(s, i)
                 /\ (~StoredAfter(s, i, sid) /\ ~DataAfter(s, i, sid)) =>
                       /\ sid \in DOMAIN reqs_waiting_upload'[s]
                       /\ reqs_waiting_upload'[s][sid] = HeaderMap(e)
                 /\ \A j \in 1..Done(s) :
                       NextDataAfter(s, i, sid, j) =>
                          /\ Cardinality(CallsAt(s, j)) =
                                IF Route(HeaderMap(e)) # None THEN 1 ELSE 0
                          /\ \A k \in CallsAt(s, j) :
                                /\ effects'[s][k].headers = HeaderMap(e)
                                /\ effects'[s][k].stream_id = sid
           /\ (IsRequest(e, sid, Methods \ BodyMethods)
                 /\ ~StoredAfter(s, i, sid) /\ ~DataAfter(s, i, sid)) =>
                 /\ sid \in DOMAIN reqs_waiting_upload'[s]
                 /\ reqs_waiting_upload'[s][sid] = old

\* C18: a PUT or POST request event for a stream that already has a pending
\* entry replaces the stored headers without any other effect, so a stream
\* has one pending entry at most; the next body-data event for the stream is
\* dispatched once, on the later headers (it invokes the handler they
\* resolve to, once), and the earlier request is never dispatched.  A GET,
\* DELETE or unsupported-method request event for the stream leaves the
\* pending entry in place.
C18_LaterHeadersReplacePending ==
    [][\A s \in Sessions : Step(s) => C18_Step(s)]_vars

\* C18 witness: one batch brought two uploads on stream 1, POST then PUT;
\* no handler was invoked and the stream is pending with the PUT headers.
C18_Witness ==
    \E s \in Sessions :
        /\ events[s] = <<RequestReceived(1, "POST", <<"a">>),
                         RequestReceived(1, "PUT", <<"a">>)>>
        /\ Len(effects[s]) = 1
        /\ reqs_waiting_upload[s][1] = HeaderMap(events[s][2])
        /\ reqs_waiting_upload[s][1] # HeaderMap(events[s][1])

C19_Step(s) ==
    raised'[s] =>
        LET n == Done(s)
            last == Len(effects'[s])
            c == effects'[s][last]
        IN /\ n >= 1
           /\ last \in CallsAt(s, n)
           /\ \A k \in 1..last : effects'[s][k].ev <= n
           /\ \A sid \in Streams :
                 /\ StoredBefore(s, n + 1, sid) = {} =>
                       sid \notin DOMAIN reqs_waiting_upload'[s]
                 /\ \A hd \in StoredBefore(s, n + 1, sid) :
                       /\ sid \in DOMAIN reqs_waiting_upload'[s]
                       /\ reqs_waiting_upload'[s][sid] = hd
           /\ c.form = "body" =>
                 /\ StoredBefore(s, n, c.stream_id) = {c.headers}
                 /\ c.stream_id \notin DOMAIN reqs_waiting_upload'[s]

\* C19: when a handler raises while a batch is processed, the events after
\* the failing one are never processed: none of them invokes a handler or
\* stores a pending entry, and the pending map is left as the events up to
\* the failing one made it.  For a body-bearing request the entry of the
\* failing stream was removed before the handler ran and is not put back, so
\* a later body-data event for that stream finds no entry and does nothing.
C19_RaiseAbortsBatchNoRollback ==
    [][\A s \in Sessions : Step(s) => (C19_Step(s) /\ C4_Step(s))]_vars

\* C19 witness: the handler of an upload raised; the step ended there and
\* the stream is no longer pending.
C19_Witness ==
    \E s \in Sessions :
        /\ raised[s]
        /\ Len(events[s]) = 1
        /\ events[s][1].type = "DataReceived"
        /\ Len(effects[s]) = 2
        /\ effects[s][2].op = "call"
        /\ effects[s][2].form = "body"
        /\ outcomes[s] = <<"raise">>
        /\ effects[s][2].stream_id \notin DOMAIN reqs_waiting_upload[s]

\* The number of settings acknowledgements in a sequence of codec output.
RECURSIVE AcksIn(_)
AcksIn(bytes) ==
    IF bytes = <<>> THEN 0
    ELSE (IF Head(bytes) = "settings_ack" THEN 1 ELSE 0) + AcksIn(Tail(bytes))

C20_Step(s) ==
    /\ {k \in 1..Len(effects'[s]) : effects'[s][k].op = "write"} = {1}
    /\ effects'[s][1].ev = 0
    /\ AcksIn(effects'[s][1].data) = AcksIn(conn[s])
    /\ AcksIn(conn'[s]) = Cardinality(SettingsEvents(s))
    /\ Len(conn'[s]) = Cardinality(SettingsEvents(s))

\* C20: the session writes codec output exactly once in a data_received
\* step, before the events are processed: what it writes holds the
\* acknowledgements queued by earlier steps and none of this step's, which
\* all stay queued in the codec.  No other callback of the session empties
\* the queue, so an acknowledgement is written only if a later data_received
\* follows, and is never written when none does.  (Handlers are opaque here
\* and write nothing on their own.)
C20_AckWaitsForNextData ==
    [][\A s \in Sessions :
          /\ Step(s) => C20_Step(s)
          /\ conn'[s] # conn[s] => Step(s)]_vars

\* C20 witness: the connection was lost while the acknowledgement of a
\* settings change was still queued in the codec: it was never written and
\* no data_received will follow.
C20_Witness ==
    \E s \in Sessions :
        /\ link[s] = "lost"
        /\ AcksIn(conn[s]) >= 1

----------------------------------------------------------------------------
(* Claims about the route table run() composes, checked under SpecRun. *)

ApiHandler ==
    [m \in {"GET", "POST", "PUT", "DELETE"} |->
        CASE m = "GET" -> "api_get" [] m = "POST" -> "api_post"
          [] m = "PUT" -> "api_put" [] m = "DELETE" -> "api_delete"]

NacmHandler ==
    [m \in {"GET", "POST", "PUT", "DELETE"} |->
        CASE m = "GET" -> "nacm_api_get" [] m = "POST" -> "nacm_api_post"
          [] m = "PUT" -> "nacm_api_put" [] m = "DELETE" -> "nacm_api_delete"]

\* Path p matches one of the four namespace predicates of configuration cfg.
InNamespace(cfg, p) ==
    \/ p = cfg.API_ROOT
    \/ StartsWith(p, cfg.API_ROOT_data)
    \/ p = cfg.NACM_API_ROOT
    \/ StartsWith(p, cfg.NACM_API_ROOT_data)

\* C12: in the table run() composes, a GET whose path matches a namespace
\* predicate (API root, data prefix, NACM root, NACM data prefix) resolves to
\* the handler of that predicate and never to the static-content handler, a
\* GET that matches none resolves to the static-content handler, and each
\* namespace resolves GET, POST, PUT and DELETE under its data prefix to its
\* own handler.
C12_StaticContentIsFallback ==
    \A cfg \in Configs :
        (api.op = "get_handler" /\ handlers = RunHandlers(cfg)) =>
            LET m == api.method
                p == api.path
            IN /\ (m = "GET" /\ p \in {cfg.API_ROOT, cfg.NACM_API_ROOT})
                     => api.ret = "api_get_root"
               /\ (m \in DOMAIN ApiHandler /\ StartsWith(p, cfg.API_ROOT_data))
                     => api.ret = ApiHandler[m]
               /\ (m \in DOMAIN NacmHandler /\ StartsWith(p, cfg.NACM_API_ROOT_data))
                     => api.ret = NacmHandler[m]
               /\ (m = "GET" /\ InNamespace(cfg, p)) => api.ret # "get_file"
               /\ (m = "GET" /\ ~InNamespace(cfg, p)) => api.ret = "get_file"

\* C12 witness: a GET for a path that extends the API root without reaching
\* its data prefix, and matches no predicate of the NACM namespace either,
\* was resolved to the static-content handler.
C12_Witness ==
    \E cfg \in Configs :
        /\ api.op = "get_handler"
        /\ handlers = RunHandlers(cfg)
        /\ api.method = "GET"
        /\ StartsWith(api.path, cfg.API_ROOT)
        /\ ~InNamespace(cfg, api.path)
        /\ api.ret = "get_file"

====
